---- MODULE Spec2Model ----
(***************************************************************************)
(* Verification model of lokomat_fes:                                      *)
(*   - planner/stimulation.py : StrideBasedStimulation (decision engine)   *)
(*   - rehastim/data.py       : Channel, RehastimData  (event log)         *)
(* Python objects live in heaps (chans, lists) so that aliasing between    *)
(* entries, logs and caller-held objects is visible.  Python's None is the *)
(* empty tuple <<>> and a present value x is <<x>>.                        *)
(***************************************************************************)
EXTENDS Integers, Sequences, FiniteSets, TLC

VARIABLES
    are_stimulating,  \* StrideBasedStimulation._are_stimulating
    engCall,          \* the last stimulation_duration call: argument, result, exception
    lastCmd,          \* per channel, the last non-None command returned to the caller
    established,      \* channel count of the first predicate output (-1 before it)
    mismatched,       \* some call's predicate length differed from established
    now,              \* the wall clock read by datetime.now()
    chans,            \* heap of Channel objects: address -> fields
    lists,            \* heap of list objects (RehastimData._data): address -> entries
    logs,             \* RehastimData objects: id -> <<>> (not built) or <<fields>>
    file,             \* what save() last wrote (a pickle), or <<>>
    saved,            \* the value of the log at the moment save() pickled it
    lastCall,         \* the last RehastimData / Channel operation and its outcome
    writes,           \* number of attribute assignments made by the caller so far
    user,             \* the log that stays in use once a snapshot exists (0: none yet)
    reader,           \* the thread running copy(): where it is and what it has read
    seen,             \* the values the log went through while copy() was running
    dev,              \* RehastimGeneric: its two flags
    hw,               \* the pyScienceMode device behind it
    timers,           \* number of threading.Timer objects started and not yet fired
    devCall           \* the last command the pyScienceMode device received

engVars == <<are_stimulating, engCall, lastCmd, established, mismatched>>
logVars == <<now, chans, lists, logs, file, saved, lastCall, writes>>
snapVars == <<user, reader, seen>>
devVars == <<dev, hw, timers, devCall>>
vars == <<are_stimulating, engCall, lastCmd, established, mismatched,
          now, chans, lists, logs, file, saved, lastCall, writes,
          user, reader, seen, dev, hw, timers, devCall>>

None == <<>>
Some(x) == <<x>>

\* ---------------------------------------------------------------- bounds
MaxChannels == 3
MaxTime == 2
MaxLen == 2
MaxWrites == 1

\* ------------------------------------------------- planner/stimulation.py
Start == 0
Stop == -1

\* tuples of booleans, one per channel of a device with 1..n channels: the
\* possible outputs of the condition function
BoolSeqs(n) == UNION {[1..k -> BOOLEAN] : k \in 1..n}

\* the if/elif chain with the second branch starting the channel again
ChannelStep_Restart(should_stimulate, is_stimulating) ==
    CASE should_stimulate ->
            [state |-> TRUE, out |-> Some(Start), raised |-> "none"]
      [] ~should_stimulate /\ is_stimulating ->
            [state |-> FALSE, out |-> Some(Stop), raised |-> "none"]
      [] OTHER ->
            [state |-> is_stimulating, out |-> None, raised |-> "none"]

\* the if/elif chain without the assignments to self._are_stimulating[i]
ChannelStep_ForgetState(should_stimulate, is_stimulating) ==
    CASE should_stimulate /\ ~is_stimulating ->
            [state |-> is_stimulating, out |-> Some(Start), raised |-> "none"]
      [] ~should_stimulate /\ is_stimulating ->
            [state |-> is_stimulating, out |-> Some(Stop), raised |-> "none"]
      [] OTHER ->
            [state |-> is_stimulating, out |-> None, raised |-> "none"]

\* one iteration of the per-channel if/elif chain
ChannelStep(should_stimulate, is_stimulating) ==
    CASE should_stimulate /\ ~is_stimulating ->
            [state |-> TRUE, out |-> Some(Start), raised |-> "none"]
      [] should_stimulate /\ is_stimulating ->
            [state |-> is_stimulating, out |-> None, raised |-> "none"]
      [] ~should_stimulate /\ is_stimulating ->
            [state |-> FALSE, out |-> Some(Stop), raised |-> "none"]
      [] ~should_stimulate /\ ~is_stimulating ->
            [state |-> is_stimulating, out |-> None, raised |-> "none"]
      [] OTHER ->
            [state |-> is_stimulating, out |-> None, raised |-> "ValueError"]

\* sizing of the stored state done on every call instead of the first only
InitState_Always(should, are) == [i \in 1..Len(should) |-> FALSE]

\* lazy sizing of the stored state: `if not self._are_stimulating`
InitState(should, are) ==
    IF are = <<>> THEN [i \in 1..Len(should) |-> FALSE] ELSE are

\* the for loop, from index i on; self._are_stimulating[i] raises IndexError
\* past the end of the stored state, after the earlier channels were updated
RECURSIVE Loop(_, _, _, _)
Loop(i, should, are, out) ==
    IF i > Len(should) THEN [state |-> are, out |-> out, raised |-> "none"]
    ELSE IF i > Len(are) THEN [state |-> are, out |-> out, raised |-> "IndexError"]
    ELSE LET s == ChannelStep(should[i], are[i])
         IN  IF s.raised # "none"
             THEN [state |-> are, out |-> out, raised |-> s.raised]
             ELSE Loop(i + 1, should, [are EXCEPT ![i] = s.state], Append(out, s.out))

\* StrideBasedStimulation.stimulation_duration: new stored state, returned
\* list, exception
StimulationDuration(should, are) == Loop(1, should, InitState(should, are), <<>>)

\* the caller's record of the last command it was handed for each channel
Remember(last, out) ==
    [i \in 1..(IF Len(out) > Len(last) THEN Len(out) ELSE Len(last)) |->
        IF i <= Len(out) /\ out[i] # None THEN out[i]
        ELSE IF i <= Len(last) THEN last[i] ELSE None]

EngInit ==
    /\ are_stimulating = <<>>
    /\ engCall = [should |-> <<>>, out |-> <<>>, raised |-> "never"]
    /\ lastCmd = <<>>
    /\ established = -1
    /\ mismatched = FALSE

Call(should) ==
    LET r == StimulationDuration(should, are_stimulating)
    IN  /\ are_stimulating' = r.state
        /\ engCall' = [should |-> should,
                       out |-> IF r.raised = "none" THEN r.out ELSE <<>>,
                       raised |-> r.raised]
        /\ lastCmd' = IF r.raised = "none" THEN Remember(lastCmd, r.out) ELSE lastCmd
        /\ established' = IF established = -1 THEN Len(should) ELSE established
        /\ mismatched' = (mismatched \/ (established # -1 /\ Len(should) # established))

CallStimulationDuration ==
    \E should \in BoolSeqs(MaxChannels) : Call(should) /\ UNCHANGED <<logVars, snapVars, devVars>>

\* ------------------------------------------------------ rehastim/data.py
Range(f) == {f[i] : i \in DOMAIN f}
Val(o) == o[1]
Last(q) == q[Len(q)]

LogIds == {1, 2}          \* 1: the session's log; 2: a log rebuilt by load()
CallerPool == {1, 2}      \* addresses of the channel objects the caller of add() owns
Amplitudes == {1, 2}
ChannelTuples == {<<1>>, <<1, 2>>}     \* tuples of caller objects given to add()
Durations == {None, Some(5)}           \* the duration argument of add()
Origins == {None, Some(1)}             \* the argument of set_t0()

NoLog == [alive |-> FALSE, t0 |-> 0, data |-> 0]
NoCall == [op |-> "none", log |-> 0, raised |-> "none", warned |-> FALSE,
           duration |-> None, channels |-> None, target |-> 0, again |-> FALSE]

\* Channel.__init__
Channel(channel_index, amplitude) ==
    [kind |-> "Channel", channel_index |-> channel_index, amplitude |-> amplitude]

\* a pyScienceMode channel object, as the device layer hands it to add()
PyScienceModeChannel(no_channel, amplitude) ==
    [kind |-> "pyScienceMode", channel_index |-> no_channel, amplitude |-> amplitude]

\* Channel.from_pysciencemode
from_pysciencemode(channel) == Channel(channel.channel_index, channel.amplitude)

\* copy.deepcopy of a Channel
deepcopy(channel) == Channel(channel.channel_index, channel.amplitude)

\* entries of the list object behind log l
Data(l) == lists[logs[l].data]
Alive == {l \in LogIds : logs[l].alive}

\* RehastimData.has_data
has_data(data) == data # <<>>

\* add() that overwrites the last entry when the channels are omitted
Add_Overwrite(data, heap, duration, channels, clock) ==
    IF channels = None
    THEN IF data = <<>>
         THEN [raised |-> "RuntimeError", data |-> data, heap |-> heap]
         ELSE [raised |-> "none",
               data |-> Append(Append(SubSeq(data, 1, Len(data) - 1),
                                      [data[Len(data)] EXCEPT !.duration = duration]),
                               [t |-> clock, duration |-> duration,
                                channels |-> data[Len(data)].channels]),
               heap |-> heap]
    ELSE [raised |-> "none",
          data |-> Append(data, [t |-> clock, duration |-> duration,
                                 channels |-> [i \in 1..Len(channels[1]) |-> Len(heap) + i]]),
          heap |-> heap \o [i \in 1..Len(channels[1]) |->
                              [kind |-> "Channel",
                               channel_index |-> heap[channels[1][i]].channel_index,
                               amplitude |-> heap[channels[1][i]].amplitude]]]

\* add() without the has_data check: an empty log gets an entry without
\* channels
Add_NoCheck(data, heap, duration, channels, clock) ==
    IF channels = None
    THEN [raised |-> "none",
          data |-> Append(data, [t |-> clock, duration |-> duration,
                                 channels |-> IF data = <<>> THEN <<>>
                                              ELSE data[Len(data)].channels]),
          heap |-> heap]
    ELSE [raised |-> "none",
          data |-> Append(data, [t |-> clock, duration |-> duration,
                                 channels |-> [i \in 1..Len(channels[1]) |-> Len(heap) + i]]),
          heap |-> heap \o [i \in 1..Len(channels[1]) |->
                              [kind |-> "Channel",
                               channel_index |-> heap[channels[1][i]].channel_index,
                               amplitude |-> heap[channels[1][i]].amplitude]]]

\* add() that stores the caller's Channel objects themselves (no deepcopy);
\* pyScienceMode channels are still converted
Add_NoCopy(data, heap, duration, channels, clock) ==
    IF channels = None
    THEN IF data = <<>>
         THEN [raised |-> "RuntimeError", data |-> data, heap |-> heap]
         ELSE [raised |-> "none",
               data |-> Append(data, [t |-> clock, duration |-> duration,
                                      channels |-> data[Len(data)].channels]),
               heap |-> heap]
    ELSE LET given == channels[1]
             conv == {i \in 1..Len(given) : heap[given[i]].kind = "pyScienceMode"}
             slot(i) == Len(heap) + Cardinality({j \in conv : j <= i})
         IN  [raised |-> "none",
              data |-> Append(data, [t |-> clock, duration |-> duration,
                                     channels |-> [i \in 1..Len(given) |->
                                         IF i \in conv THEN slot(i) ELSE given[i]]]),
              heap |-> heap \o [k \in 1..Cardinality(conv) |->
                  LET i == CHOOSE x \in conv : Cardinality({j \in conv : j <= x}) = k
                  IN  [kind |-> "Channel",
                       channel_index |-> heap[given[i]].channel_index,
                       amplitude |-> heap[given[i]].amplitude]]]

\* RehastimData.add on the entries `data` with the channel heap `heap`:
\* exception, new entries, new heap
Add(data, heap, duration, channels, clock) ==
    IF channels = None
    THEN IF ~has_data(data)
         THEN [raised |-> "RuntimeError", data |-> data, heap |-> heap]
         ELSE [raised |-> "none",
               data |-> Append(data, [t |-> clock, duration |-> duration,
                                      channels |-> Last(data).channels]),
               heap |-> heap]
    ELSE LET given == Val(channels)
             copies == [i \in 1..Len(given) |->
                           IF heap[given[i]].kind = "pyScienceMode"
                           THEN from_pysciencemode(heap[given[i]])
                           ELSE deepcopy(heap[given[i]])]
             fresh == [i \in 1..Len(given) |-> Len(heap) + i]
         IN  [raised |-> "none",
              data |-> Append(data, [t |-> clock, duration |-> duration,
                                     channels |-> fresh]),
              heap |-> heap \o copies]

\* stop_undefined_stimulation_duration() that stamps the closed entry with
\* the closing time
StopUndefined_Restamp(data, clock) ==
    IF data = <<>> THEN [warned |-> TRUE, data |-> data]
    ELSE IF data[Len(data)].duration # None THEN [warned |-> FALSE, data |-> data]
    ELSE [warned |-> FALSE,
          data |-> [data EXCEPT ![Len(data)] =
                       [t |-> clock,
                        duration |-> Some(clock - data[Len(data)].t),
                        channels |-> data[Len(data)].channels]]]

\* stop_undefined_stimulation_duration() that tests the duration for truth
\* (`if self._data[-1][1]:`) instead of `is not None`
StopUndefined_Truthy(data, clock) ==
    IF data = <<>> THEN [warned |-> TRUE, data |-> data]
    ELSE IF data[Len(data)].duration # None /\ data[Len(data)].duration # Some(0)
         THEN [warned |-> FALSE, data |-> data]
    ELSE [warned |-> FALSE,
          data |-> [data EXCEPT ![Len(data)] =
                       [t |-> data[Len(data)].t,
                        duration |-> Some(clock - data[Len(data)].t),
                        channels |-> data[Len(data)].channels]]]

\* RehastimData.stop_undefined_stimulation_duration: warning, new entries
StopUndefined(data, clock) ==
    IF data = <<>> THEN [warned |-> TRUE, data |-> data]
    ELSE IF Last(data).duration # None THEN [warned |-> FALSE, data |-> data]
    ELSE LET stimulation_started_at == Last(data).t
             stimulation_lasted == clock - stimulation_started_at
             channels == Last(data).channels
         IN  [warned |-> FALSE,
              data |-> [data EXCEPT ![Len(data)] =
                           [t |-> stimulation_started_at,
                            duration |-> Some(stimulation_lasted),
                            channels |-> channels]]]

\* RehastimData.set_t0
SetT0(new_t0, clock) == IF new_t0 # None THEN Val(new_t0) ELSE clock

LogInit ==
    /\ now = 0
    /\ chans = <<Channel(1, 2), PyScienceModeChannel(2, 1)>>
    /\ lists = << <<>> >>
    /\ logs = [l \in LogIds |-> IF l = 1 THEN [alive |-> TRUE, t0 |-> 0, data |-> 1]
                                ELSE NoLog]
    /\ file = None
    /\ saved = None
    /\ lastCall = NoCall
    /\ writes = 0

\* datetime.now() moves on
ClockAdvance ==
    /\ now < MaxTime
    /\ now' = now + 1
    /\ UNCHANGED <<chans, lists, logs, file, saved, lastCall, writes>>
    /\ UNCHANGED <<engVars, snapVars, devVars>>

\* what a log holds, by value
LogValue(log, ls, heap) ==
    [t0 |-> log.t0,
     events |-> [k \in 1..Len(ls[log.data]) |->
                   [t |-> ls[log.data][k].t, duration |-> ls[log.data][k].duration,
                    channels |-> [j \in 1..Len(ls[log.data][k].channels) |->
                        [channel_index |-> heap[ls[log.data][k].channels[j]].channel_index,
                         amplitude |-> heap[ls[log.data][k].channels[j]].amplitude]]]]]

\* history of the session log while a copy() of it is running on another
\* thread: every value the log has held since the copy started
Observed ==
    seen' = IF reader.pc \in {"created", "t0_read"}
            THEN seen \cup {LogValue(logs'[1], lists', chans')}
            ELSE seen

CallAdd ==
    \E l \in Alive, duration \in Durations,
       channels \in {None} \cup {Some(c) : c \in ChannelTuples} :
        LET r == Add(Data(l), chans, duration, channels, now)
        IN  /\ Len(Data(l)) < MaxLen
            /\ lists' = [lists EXCEPT ![logs[l].data] = r.data]
            /\ chans' = r.heap
            /\ lastCall' = [NoCall EXCEPT !.op = "add", !.log = l, !.raised = r.raised,
                                          !.duration = duration, !.channels = channels]
            /\ UNCHANGED <<now, logs, file, saved, writes>>
            /\ UNCHANGED <<engVars, user, reader, devVars>>
            /\ Observed

CallStop ==
    \E l \in Alive :
        LET r == StopUndefined(Data(l), now)
        IN  /\ lists' = [lists EXCEPT ![logs[l].data] = r.data]
            /\ lastCall' = [NoCall EXCEPT !.op = "stop", !.log = l, !.warned = r.warned,
                                          !.again = (lastCall.op = "stop" /\ lastCall.log = l)]
            /\ UNCHANGED <<now, chans, logs, file, saved, writes>>
            /\ UNCHANGED <<engVars, user, reader, devVars>>
            /\ Observed

CallSetT0 ==
    \E l \in Alive, new_t0 \in Origins :
        /\ logs' = [logs EXCEPT ![l].t0 = SetT0(new_t0, now)]
        /\ lastCall' = [NoCall EXCEPT !.op = "set_t0", !.log = l]
        /\ UNCHANGED <<now, chans, lists, file, saved, writes>>
        /\ UNCHANGED <<engVars, user, reader, devVars>>
        /\ Observed

\* the caller assigns .amplitude of a channel object it holds: one of its own
\* or one reached through an entry of a log (sample_block)
SetAmplitude ==
    \E a \in DOMAIN chans, v \in Amplitudes :
        /\ writes < MaxWrites
        /\ chans[a].amplitude # v
        /\ writes' = writes + 1
        /\ chans' = [chans EXCEPT ![a].amplitude = v]
        /\ lastCall' = [NoCall EXCEPT !.op = "set_amplitude", !.target = a]
        /\ UNCHANGED <<now, lists, logs, file, saved>>
        /\ UNCHANGED <<engVars, snapVars, devVars>>

\* the caller assigns .channel_index of a channel object it holds
SetChannelIndex ==
    \E a \in DOMAIN chans, v \in {1, 2} :
        /\ writes < MaxWrites
        /\ chans[a].channel_index # v
        /\ writes' = writes + 1
        /\ chans' = [chans EXCEPT ![a].channel_index = v]
        /\ lastCall' = [NoCall EXCEPT !.op = "set_index", !.target = a]
        /\ UNCHANGED <<now, lists, logs, file, saved>>
        /\ UNCHANGED <<engVars, snapVars, devVars>>

\* ---- derived views (numpy arrays are nested tuples; np.array([[]]) is << <<>> >>)
Closed(data) == SelectSeq(data, LAMBDA e : e.duration # None)

\* RehastimData.time
time(t0, data) ==
    IF data = <<>> THEN <<>>
    ELSE LET c == Closed(data) IN [k \in 1..Len(c) |-> c[k].t - t0]

\* RehastimData.duration_as_array
duration_as_array(data) ==
    IF data = <<>> THEN << <<>> >>
    ELSE LET c == Closed(data) IN [k \in 1..Len(c) |-> Val(c[k].duration)]

\* RehastimData.amplitude_as_array: np.array(rows).T; rows of unequal length
\* make np.array raise
amplitude_as_array(data, heap) ==
    IF data = <<>> THEN [raised |-> "none", array |-> << <<>> >>]
    ELSE LET c == Closed(data)
             rows == [k \in 1..Len(c) |->
                        [j \in 1..Len(c[k].channels) |-> heap[c[k].channels[j]].amplitude]]
         IN  IF rows = <<>> THEN [raised |-> "none", array |-> <<>>]
             ELSE IF \E k \in 1..Len(rows) : Len(rows[k]) # Len(rows[1])
             THEN [raised |-> "ValueError", array |-> <<>>]
             ELSE [raised |-> "none",
                   array |-> [j \in 1..Len(rows[1]) |-> [k \in 1..Len(rows) |-> rows[k][j]]]]

\* ---- persistence
Front(q) == SubSeq(q, 1, Len(q) - 1)

\* channel addresses of all entries, in log order
RECURSIVE AllRefs(_)
AllRefs(data) == IF data = <<>> THEN <<>> ELSE AllRefs(Front(data)) \o Last(data).channels

\* pickle's memo: each object once, in order of first visit
RECURSIVE Memo(_)
Memo(refs) ==
    IF refs = <<>> THEN <<>>
    ELSE LET m == Memo(Front(refs))
         IN  IF Last(refs) \in Range(m) THEN m ELSE Append(m, Last(refs))

IndexOf(q, x) == CHOOSE i \in 1..Len(q) : q[i] = x

\* RehastimData.serialized: a dict holding the log's own _t0 and _data objects
serialized(log) == [t0 |-> log.t0, data |-> log.data]

\* pickle.dump of that dict: the origin time, the channel objects' attributes
\* and the entries with their channels as memo indices
pickle_dump(d, ls, heap) ==
    LET memo == Memo(AllRefs(ls[d.data]))
    IN  [t0 |-> d.t0,
         objs |-> [i \in 1..Len(memo) |->
                      <<heap[memo[i]].channel_index, heap[memo[i]].amplitude>>],
         data |-> [k \in 1..Len(ls[d.data]) |->
                      <<ls[d.data][k].t, ls[d.data][k].duration,
                        [j \in 1..Len(ls[d.data][k].channels) |->
                            IndexOf(memo, ls[d.data][k].channels[j])]>>]]

\* pickle.load: rebuilds the dict with a new list and new channel objects
pickle_load(blob, ls, heap) ==
    [dict |-> [t0 |-> blob.t0, data |-> Len(ls) + 1],
     lists |-> Append(ls, [k \in 1..Len(blob.data) |->
                  [t |-> blob.data[k][1], duration |-> blob.data[k][2],
                   channels |-> [j \in 1..Len(blob.data[k][3]) |->
                                    Len(heap) + blob.data[k][3][j]]]]),
     heap |-> heap \o [i \in 1..Len(blob.objs) |->
                          Channel(blob.objs[i][1], blob.objs[i][2])]]

\* deserialize() without `out._t0 = data["t0"]`: the origin time stays the
\* one cls() read from the clock
deserialize_KeepClock(d, clock) == [alive |-> TRUE, t0 |-> clock, data |-> d.data]

\* RehastimData.deserialize: cls() reads the clock and makes an empty list,
\* then both fields are overwritten from the dict
deserialize(d, clock) == [alive |-> TRUE, t0 |-> d.t0, data |-> d.data]

\* RehastimData.save
CallSave ==
    \E l \in Alive :
        /\ file' = Some(pickle_dump(serialized(logs[l]), lists, chans))
        /\ saved' = Some(LogValue(logs[l], lists, chans))
        /\ lastCall' = [NoCall EXCEPT !.op = "save", !.log = l]
        /\ UNCHANGED <<now, chans, lists, logs, writes>>
        /\ UNCHANGED <<engVars, snapVars, devVars>>

\* RehastimData.load, the result kept as log 2
CallLoad ==
    /\ file # None
    /\ ~logs[2].alive
    /\ LET r == pickle_load(Val(file), lists, chans)
       IN  /\ chans' = r.heap
           /\ lists' = Append(r.lists, <<>>)
           /\ logs' = [logs EXCEPT ![2] = deserialize(r.dict, now)]
    /\ lastCall' = [NoCall EXCEPT !.op = "load", !.log = 2]
    /\ UNCHANGED <<now, file, saved, writes>>
    /\ UNCHANGED <<engVars, snapVars, devVars>>

\* ---- snapshots
\* the channel objects reachable from log l
Objects(l) == UNION {Range(Data(l)[k].channels) : k \in 1..Len(Data(l))}

SnapInit ==
    /\ user = 0
    /\ reader = [pc |-> "idle", t0 |-> 0]
    /\ seen = {}

\* copy.deepcopy of the list self._data: a new list whose entries refer to
\* new Channel objects, one per distinct object of the original (deepcopy's
\* memo keeps the sharing between entries)
deepcopy_data(data, ls, heap) ==
    LET memo == Memo(AllRefs(data))
    IN  [data |-> [k \in 1..Len(data) |->
                     [t |-> data[k].t, duration |-> data[k].duration,
                      channels |-> [j \in 1..Len(data[k].channels) |->
                                      Len(heap) + IndexOf(memo, data[k].channels[j])]]],
         heap |-> heap \o [i \in 1..Len(memo) |-> deepcopy(heap[memo[i]])]]

\* copy() with copy.copy in place of deepcopy: a new list of the same entries
Copy_Shallow(log, ls, heap, clock) ==
    [log |-> [alive |-> TRUE, t0 |-> log.t0, data |-> Len(ls) + 2],
     lists |-> ls \o << <<>>, ls[log.data] >>,
     heap |-> heap]

\* RehastimData.copy: RehastimData() reads the clock and makes an empty list,
\* then both fields are replaced by deep copies
Copy(log, ls, heap, clock) ==
    LET d == deepcopy_data(ls[log.data], ls, heap)
    IN  [log |-> [alive |-> TRUE, t0 |-> log.t0, data |-> Len(ls) + 2],
         lists |-> ls \o << <<>>, d.data >>,
         heap |-> d.heap]

\* log.copy, the snapshot kept as log 2; from then on the program goes on
\* with one of the two objects
CallCopy ==
    /\ ~logs[2].alive
    /\ LET r == Copy(logs[1], lists, chans, now)
       IN  /\ logs' = [logs EXCEPT ![2] = r.log]
           /\ lists' = r.lists
           /\ chans' = r.heap
    /\ lastCall' = [NoCall EXCEPT !.op = "copy", !.log = 2]
    /\ \E u \in LogIds : user' = u
    /\ UNCHANGED <<now, file, saved, writes, reader, seen>>
    /\ UNCHANGED <<engVars, devVars>>

\* log.copy called on a second thread while the first one keeps writing the
\* log (copy takes no lock): the three statements of copy are three steps,
\* and the writer can run between any two of them. deepcopy of the list is
\* taken as one step here, the coarsest interleaving the interpreter allows.
\* out = RehastimData()
CopyCreate ==
    /\ reader.pc = "idle"
    /\ ~logs[2].alive
    /\ reader' = [reader EXCEPT !.pc = "created"]
    /\ lists' = Append(lists, <<>>)
    /\ seen' = {LogValue(logs[1], lists, chans)}
    /\ lastCall' = [NoCall EXCEPT !.op = "copy_create", !.log = 2]
    /\ UNCHANGED <<now, chans, logs, file, saved, writes, user>>
    /\ UNCHANGED <<engVars, devVars>>

\* out._t0 = deepcopy(self._t0)
CopyReadT0 ==
    /\ reader.pc = "created"
    /\ reader' = [pc |-> "t0_read", t0 |-> logs[1].t0]
    /\ lastCall' = [NoCall EXCEPT !.op = "copy_t0", !.log = 2]
    /\ UNCHANGED <<now, chans, lists, logs, file, saved, writes, user, seen>>
    /\ UNCHANGED <<engVars, devVars>>

\* out._data = deepcopy(self._data); return out
CopyReadData ==
    /\ reader.pc = "t0_read"
    /\ LET d == deepcopy_data(Data(1), lists, chans)
       IN  /\ logs' = [logs EXCEPT ![2] = [alive |-> TRUE, t0 |-> reader.t0,
                                           data |-> Len(lists) + 1]]
           /\ lists' = Append(lists, d.data)
           /\ chans' = d.heap
    /\ reader' = [reader EXCEPT !.pc = "done"]
    /\ lastCall' = [NoCall EXCEPT !.op = "copy", !.log = 2]
    /\ UNCHANGED <<now, file, saved, writes, user, seen>>
    /\ UNCHANGED <<engVars, devVars>>

\* RehastimData.deserialize(log.serialized) in memory, the result kept as log 2
CallDeserialize ==
    /\ ~logs[2].alive
    /\ logs' = [logs EXCEPT ![2] = deserialize(serialized(logs[1]), now)]
    /\ lists' = Append(lists, <<>>)
    /\ lastCall' = [NoCall EXCEPT !.op = "deserialize", !.log = 2]
    /\ UNCHANGED <<now, chans, file, saved, writes>>
    /\ UNCHANGED <<engVars, snapVars, devVars>>

\* ---- the stimulator wrapper (RehastimGeneric)
\* timed starts whose Timer has not fired yet, and start_stimulation calls
\* in one run
MaxTimers == 2
MaxStarts == 3

NoDevCall ==
    [op |-> "none", by |-> "none", starts |-> 0, initialised |-> FALSE,
     upd |-> FALSE, hold |-> FALSE, explicit |-> FALSE, late |-> FALSE]

\* RehastimGeneric.__init__; hw is the pyScienceMode device as the wrapper
\* drives it: stimulating or paused, port open or closed. devCall is the
\* last command sent to it: who sent it (by), whether the call ran
\* _initialize_stimulation (initialised) and passed a channel list (upd),
\* whether the latest start was a start_stimulation(None) still waiting for
\* its stop (hold),
\* whether initialize_stimulation was ever called (explicit) and whether
\* the command came after close_port (late)
DevInit ==
    /\ dev = [is_stimulation_initialized |-> FALSE, channels_has_changed |-> TRUE]
    /\ hw = [stimulating |-> FALSE, open |-> TRUE]
    /\ timers = 0
    /\ devCall = NoDevCall

\* the wrapper's two flags after the first block of start_stimulation:
\* _channels_has_changed is cleared, _is_stimulation_initialized is left
\* as it was
StartFlags(d) ==
    IF ~d.is_stimulation_initialized
    THEN [d EXCEPT !.channels_has_changed = FALSE]
    ELSE d

\* start_stimulation(duration) called by the program
CallStartStimulation ==
    \E duration \in Durations :
        /\ hw.open
        /\ devCall.starts < MaxStarts
        /\ duration # None => timers < MaxTimers
        /\ dev' = StartFlags(dev)
        /\ hw' = [hw EXCEPT !.stimulating = TRUE]
        /\ timers' = IF duration # None THEN timers + 1 ELSE timers
        /\ devCall' = [devCall EXCEPT !.op = "start", !.by = "caller",
                                      !.starts = @ + 1,
                                      !.initialised = ~dev.is_stimulation_initialized,
                                      !.upd = StartFlags(dev).channels_has_changed,
                                      !.hold = (duration = None)]
        /\ UNCHANGED <<engVars, logVars, snapVars>>

\* stop_stimulation called by the program
CallStopStimulation ==
    /\ hw.open
    /\ hw' = [hw EXCEPT !.stimulating = FALSE]
    /\ devCall' = [devCall EXCEPT !.op = "stop", !.by = "caller",
                                  !.initialised = FALSE, !.upd = FALSE,
                                  !.hold = FALSE]
    /\ UNCHANGED <<dev, timers>>
    /\ UNCHANGED <<engVars, logVars, snapVars>>

\* a Timer started by a timed start_stimulation fires and calls
\* stop_stimulation on its own thread
TimerExpires ==
    /\ timers > 0
    /\ timers' = timers - 1
    /\ hw' = [hw EXCEPT !.stimulating = FALSE]
    /\ devCall' = [devCall EXCEPT !.op = "stop", !.by = "timer",
                                  !.initialised = FALSE, !.upd = FALSE,
                                  !.late = ~hw.open]
    /\ UNCHANGED dev
    /\ UNCHANGED <<engVars, logVars, snapVars>>

\* dispose: end_stimulation, disconnect, close_port; pending Timers are not
\* cancelled
CallDispose ==
    /\ hw.open
    /\ hw' = [stimulating |-> FALSE, open |-> FALSE]
    /\ devCall' = [devCall EXCEPT !.op = "dispose", !.by = "caller",
                                  !.initialised = FALSE, !.upd = FALSE,
                                  !.hold = FALSE]
    /\ UNCHANGED <<dev, timers>>
    /\ UNCHANGED <<engVars, logVars, snapVars>>

\* initialize_stimulation called by the program
CallInitializeStimulation ==
    /\ hw.open
    /\ dev' = [is_stimulation_initialized |-> TRUE, channels_has_changed |-> FALSE]
    /\ devCall' = [devCall EXCEPT !.op = "initialize", !.by = "caller",
                                  !.initialised = TRUE, !.upd = FALSE,
                                  !.explicit = TRUE]
    /\ UNCHANGED <<hw, timers>>
    /\ UNCHANGED <<engVars, logVars, snapVars>>

\* set_channels called by the program
CallSetChannels ==
    /\ hw.open
    /\ dev' = [dev EXCEPT !.channels_has_changed = TRUE]
    /\ devCall' = [devCall EXCEPT !.op = "set_channels", !.by = "caller",
                                  !.initialised = FALSE, !.upd = FALSE]
    /\ UNCHANGED <<hw, timers>>
    /\ UNCHANGED <<engVars, logVars, snapVars>>

\* ------------------------------------------------------- specifications
\* the decision engine, ticked with arbitrary predicate outputs
EngNext == CallStimulationDuration

\* one event log written during a session
LogNext ==
    \/ ClockAdvance
    \/ CallAdd
    \/ CallStop
    \/ CallSetT0

\* the log and a caller that also assigns to channel objects it can reach
AliasNext ==
    \/ CallAdd
    \/ CallStop
    \/ SetAmplitude
    \/ SetChannelIndex

\* a session that ends with save(); the file is loaded back some time later
PersistNext ==
    \/ file = None /\ LogNext
    \/ file = None /\ CallSave
    \/ file # None /\ ClockAdvance
    \/ CallLoad

\* a log, a snapshot taken from it by copy(), and both in use afterwards
CopyNext ==
    \/ user = 0 /\ CallAdd
    \/ user = 0 /\ CallStop
    \/ CallCopy
    \/ user # 0 /\ CallAdd /\ lastCall'.log = user
    \/ user # 0 /\ CallStop /\ lastCall'.log = user
    \/ user # 0 /\ CallSetT0 /\ lastCall'.log = user
    \/ user # 0 /\ SetAmplitude /\ lastCall'.target \in Objects(user)

\* a log, a second one built from its serialized form, and both in use
DeserializeNext ==
    \/ ClockAdvance
    \/ CallAdd
    \/ CallStop
    \/ CallDeserialize

\* a writer thread on the session log and a reader thread that takes one
\* snapshot of it with copy()
RaceNext ==
    \/ reader.pc # "done" /\ CallAdd
    \/ reader.pc # "done" /\ CallStop
    \/ reader.pc # "idle" /\ reader.pc # "done" /\ CallSetT0
    \/ CopyCreate
    \/ CopyReadT0
    \/ CopyReadData

\* the program drives the stimulator while the Timers of its timed starts
\* run out
DeviceNext ==
    \/ CallStartStimulation
    \/ CallStopStimulation
    \/ TimerExpires
    \/ CallDispose
    \/ CallInitializeStimulation
    \/ CallSetChannels

Init == EngInit /\ LogInit /\ SnapInit /\ DevInit

SpecEngine == Init /\ [][EngNext]_vars
SpecLog == Init /\ [][LogNext]_vars
SpecAlias == Init /\ [][AliasNext]_vars
SpecPersist == Init /\ [][PersistNext]_vars
SpecCopy == Init /\ [][CopyNext]_vars
SpecDeserialize == Init /\ [][DeserializeNext]_vars
SpecRace == Init /\ [][RaceNext]_vars
SpecDevice == Init /\ [][DeviceNext]_vars

\* ------------------------------------------------------------ claims
\* stored state of channel i as the loop reads it (all false on the lazy
\* first sizing)
Was(i) == IF are_stimulating = <<>> THEN FALSE ELSE are_stimulating[i]

\* C1: every returning call of stimulation_duration follows the four-row
\* table on every channel: (want, not was) emits Start(0) and stores true;
\* (want, was) emits None and keeps true; (not want, was) emits Stop(-1) and
\* stores false; (not want, not was) emits None and keeps false; and no call
\* ever reaches the fall-through ValueError.
C1_TransitionTable ==
    [][/\ engCall'.raised # "ValueError"
       /\ engCall'.raised = "none" =>
            /\ Len(engCall'.out) = Len(engCall'.should)
            /\ \A i \in 1..Len(engCall'.should) :
                 LET want == engCall'.should[i]
                     was == Was(i)
                     cmd == engCall'.out[i]
                     stored == are_stimulating'[i]
                 IN  /\ (want /\ ~was) => (cmd = Some(Start) /\ stored = TRUE)
                     /\ (want /\ was) => (cmd = None /\ stored = TRUE)
                     /\ (~want /\ was) => (cmd = Some(Stop) /\ stored = FALSE)
                     /\ (~want /\ ~was) => (cmd = None /\ stored = FALSE)]_vars

\* a call that stopped channel 1 and started channel 2 at once
C1_Witness ==
    /\ engCall.raised = "none"
    /\ engCall.should = <<FALSE, TRUE>>
    /\ engCall.out = <<Some(Stop), Some(Start)>>
    /\ are_stimulating = <<FALSE, TRUE>>

\* C2: while every predicate output has the channel count of the first one,
\* the non-None commands returned for a channel alternate Start, Stop,
\* Start, ... beginning with Start: a Start is never returned for a channel
\* whose last command was Start, a Stop only for one whose last command was
\* Start.
C2_Alternation ==
    [][(~mismatched' /\ engCall'.raised = "none") =>
         \A i \in 1..Len(engCall'.out) :
            LET prev == IF i <= Len(lastCmd) THEN lastCmd[i] ELSE None
            IN  /\ engCall'.out[i] = Some(Start) => prev # Some(Start)
                /\ engCall'.out[i] = Some(Stop) => prev = Some(Start)]_vars

\* one channel, ticks T.. then F: the Stop has just been returned after a
\* Start and the stored state is false again
C2_Witness ==
    /\ ~mismatched
    /\ established = 1
    /\ engCall.should = <<FALSE>>
    /\ engCall.out = <<Some(Stop)>>
    /\ lastCmd = <<Some(Stop)>>
    /\ are_stimulating = <<FALSE>>

\* C3 (as claimed): a call whose predicate output is longer or shorter than
\* the channel count of the first call raises instead of returning a list.
C3_MismatchFailsFast ==
    (engCall.raised # "never" /\ Len(engCall.should) # established)
        => engCall.raised # "none"

\* the step is a call of the operation op (the clock step leaves lastCall alone)
IsCall(op) == lastCall'.op = op /\ now' = now

\* the channel objects of an entry, by value
ChannelValues(e, heap) ==
    [j \in 1..Len(e.channels) |->
        <<heap[e.channels[j]].channel_index, heap[e.channels[j]].amplitude>>]

\* C4 (as claimed): in every reachable state of a log an open (None)
\* duration is found on the last entry only, hence on at most one entry.
C4_OnlyLastEntryOpen ==
    \A l \in Alive : \A k \in 1..Len(Data(l)) :
        Data(l)[k].duration = None => k = Len(Data(l))

\* C5 (as claimed): right after add() with the channels omitted, assigning
\* the amplitude of a channel of the new entry leaves the channels of the
\* preceding entry as they were, and assigning one of the preceding entry
\* leaves those of the new entry as they were.
C5_InheritedChannelsAreCopies ==
    [][(/\ lastCall.op = "add"
        /\ lastCall.channels = None
        /\ lastCall.raised = "none"
        /\ IsCall("set_amplitude")) =>
          LET d == Data(lastCall.log)
              new == d[Len(d)]
              prev == d[Len(d) - 1]
          IN  /\ lastCall'.target \in Range(new.channels)
                    => ChannelValues(prev, chans') = ChannelValues(prev, chans)
              /\ lastCall'.target \in Range(prev.channels)
                    => ChannelValues(new, chans') = ChannelValues(new, chans)]_vars

\* C6: a successful add() appends exactly one entry, open when the duration
\* is None and with the given duration otherwise, and leaves the origin
\* time, every earlier entry and every channel object already stored as
\* they were.
C6_AddAppendsOnly ==
    [][(IsCall("add") /\ lastCall'.raised = "none") =>
          LET l == lastCall'.log
              old == lists[logs[l].data]
              new == lists'[logs[l].data]
          IN  /\ logs' = logs
              /\ Len(new) = Len(old) + 1
              /\ SubSeq(new, 1, Len(old)) = old
              /\ \A a \in DOMAIN chans : chans'[a] = chans[a]
              /\ new[Len(new)].t = now
              /\ new[Len(new)].duration = lastCall'.duration]_vars

\* an open entry was appended behind a closed one
C6_Witness ==
    /\ lastCall.op = "add"
    /\ lastCall.raised = "none"
    /\ lastCall.duration = None
    /\ Len(Data(1)) = 2
    /\ Data(1)[1].duration = Some(5)
    /\ Data(1)[2].duration = None

\* C7: stop_undefined_stimulation_duration() changes nothing but warns on an
\* empty log, changes nothing when the last entry has a duration, and
\* otherwise replaces the last entry's duration alone by now - timestamp,
\* which is >= 0; length, origin time, earlier entries, the entry's
\* timestamp and channels stay.
C7_StopClosesLastOnly ==
    [][IsCall("stop") =>
          LET l == lastCall'.log
              old == lists[logs[l].data]
              new == lists'[logs[l].data]
          IN  /\ logs' = logs
              /\ chans' = chans
              /\ lastCall'.raised = "none"
              /\ lastCall'.warned = (old = <<>>)
              /\ old = <<>> => new = old
              /\ (old # <<>> /\ old[Len(old)].duration # None) => new = old
              /\ (old # <<>> /\ old[Len(old)].duration = None) =>
                    /\ now - old[Len(old)].t >= 0
                    /\ new = [old EXCEPT ![Len(old)].duration =
                                            Some(now - old[Len(old)].t)]]_vars

\* an entry opened at time 0 behind an earlier one was closed at time 2
C7_Witness ==
    /\ lastCall.op = "stop"
    /\ ~lastCall.again
    /\ Len(Data(1)) = 2
    /\ Data(1)[2].t = 0
    /\ Data(1)[2].duration = Some(2)
    /\ now = 2

\* C8: a stop_undefined_stimulation_duration() call that directly follows
\* another one on the same log, whatever the clock did in between, leaves the
\* entries, the channel objects and the origin time as the first call left
\* them.
C8_StopIdempotent ==
    [][(IsCall("stop") /\ lastCall'.again) =>
          /\ lists' = lists
          /\ chans' = chans
          /\ logs' = logs]_vars

\* the entry was closed with duration 0, the clock moved on, and the call was
\* made again
C8_Witness ==
    /\ lastCall.op = "stop"
    /\ lastCall.again
    /\ Data(1) # <<>>
    /\ Data(1)[Len(Data(1))].duration = Some(0)
    /\ now > Data(1)[Len(Data(1))].t

\* number of columns of a matrix given as a tuple of rows
Columns(m) == IF m = <<>> THEN 0 ELSE Len(m[1])

\* C9 (as claimed): for any log the time series and the duration series have
\* one element per closed entry, in log order, time[k] being the k-th closed
\* entry's timestamp minus the origin time, and the amplitude matrix has one
\* column per closed entry.
C9_ViewsAreTheClosedEntries ==
    \A l \in Alive :
        LET c == Closed(Data(l))
            ts == time(logs[l].t0, Data(l))
            ds == duration_as_array(Data(l))
            am == amplitude_as_array(Data(l), chans)
        IN  /\ Len(ts) = Len(c)
            /\ \A k \in 1..Len(c) : ts[k] = c[k].t - logs[l].t0
            /\ Len(ds) = Len(c)
            /\ \A k \in 1..Len(c) : ds[k] = Val(c[k].duration)
            /\ am.raised = "none"
            /\ Columns(am.array) = Len(c)

\* C10: the log that load() builds from what save() wrote has the origin
\* time and the event sequence (timestamp, duration or open marker, channel
\* indices and amplitudes) the saved log had when it was saved.
C10_RoundTrip ==
    lastCall.op = "load" => LogValue(logs[2], lists, chans) = Val(saved)

\* a closed entry followed by an open one went through the file, and the
\* origin time restored differs from the clock at load time
C10_Witness ==
    /\ lastCall.op = "load"
    /\ logs[2].alive
    /\ Len(Data(2)) = 2
    /\ Data(2)[1].duration # None
    /\ Data(2)[2].duration = None
    /\ logs[2].t0 # now

\* C12: add() with the channels omitted on an empty log raises and leaves the
\* log empty, the origin time and the channel objects as they were; an add()
\* with explicit channels made right after that failure succeeds and stores
\* the first entry.
C12_EmptyLogAddFails ==
    [][IsCall("add") =>
          LET l == lastCall'.log
              old == lists[logs[l].data]
              new == lists'[logs[l].data]
          IN  /\ (lastCall'.channels = None /\ old = <<>>) =>
                    /\ lastCall'.raised # "none"
                    /\ new = <<>>
                    /\ logs' = logs
                    /\ chans' = chans
              /\ (/\ lastCall.op = "add"
                  /\ lastCall.log = l
                  /\ lastCall.raised # "none"
                  /\ lastCall'.channels # None) =>
                    /\ lastCall'.raised = "none"
                    /\ Len(new) = 1]_vars

\* the failed call, made after the origin time was moved to 1
C12_Witness ==
    /\ lastCall.op = "add"
    /\ lastCall.channels = None
    /\ lastCall.raised = "RuntimeError"
    /\ Data(1) = <<>>
    /\ logs[1].t0 = 1

\* C13: the first call with a predicate output of length N makes the stored
\* state N entries long, all false before the comparison, so it returns
\* Start(0) exactly for the channels whose predicate value is true and None
\* for the others; a later call with the same N keeps N entries and does not
\* size the state again (a channel already stimulating and still wanted gets
\* None).
C13_LazySizing ==
    [][LET should == engCall'.should
           N == Len(should)
       IN  /\ engCall.raised = "never" =>
                /\ engCall'.raised = "none"
                /\ Len(are_stimulating') = N
                /\ \A i \in 1..N :
                      /\ engCall'.out[i] = (IF should[i] THEN Some(Start) ELSE None)
                      /\ are_stimulating'[i] = should[i]
           /\ (engCall.raised # "never" /\ N = Len(are_stimulating)) =>
                /\ engCall'.raised = "none"
                /\ Len(are_stimulating') = N
                /\ \A i \in 1..N :
                      (should[i] /\ are_stimulating[i]) => engCall'.out[i] = None]_vars

\* a later call on two channels that kept channel 1 stimulating without a
\* second Start
C13_Witness ==
    /\ established = 2
    /\ ~mismatched
    /\ engCall.should = <<TRUE, FALSE>>
    /\ engCall.out = <<None, None>>
    /\ are_stimulating = <<TRUE, FALSE>>

\* every entry of every log, by value
StoredValues(heap) ==
    [l \in LogIds |-> IF logs[l].alive
                      THEN [k \in 1..Len(Data(l)) |-> ChannelValues(Data(l)[k], heap)]
                      ELSE <<>>]

\* C14: assigning the index or the amplitude of a channel object the caller
\* passed to add() changes the channels of no entry in any log.
C14_ExplicitChannelsAreCopies ==
    [][((IsCall("set_amplitude") \/ IsCall("set_index"))
            /\ lastCall'.target \in CallerPool) =>
          StoredValues(chans') = StoredValues(chans)]_vars

\* the caller's Channel object 1 was given to add() and its amplitude changed
\* afterwards; the stored copy keeps the old one
C14_Witness ==
    /\ lastCall.op = "set_amplitude"
    /\ lastCall.target = 1
    /\ Len(Data(1)) >= 1
    /\ chans[Data(1)[1].channels[1]].channel_index = chans[1].channel_index
    /\ chans[Data(1)[1].channels[1]].amplitude # chans[1].amplitude

\* C15 (as claimed): a call of stimulation_duration that changes the stored
\* state of channel i returns a list whose slot i is Start or Stop; a call
\* that raises changes no stored state.
C15_StateChangesWithCommand ==
    [][\A i \in 1..Len(are_stimulating') :
          are_stimulating'[i] # Was(i) =>
             /\ engCall'.raised = "none"
             /\ engCall'.out[i] \in {Some(Start), Some(Stop)}]_vars

\* C11: once the snapshot exists, add(), stop_undefined_stimulation_duration()
\* and set_t0() on one of the two logs, and an amplitude assigned to a channel
\* object of one of them, leave the origin time and the events of the other
\* as they were.
C11_SnapshotIndependent ==
    [][logs[2].alive =>
          \A l \in LogIds :
             (\/ (IsCall("add") \/ IsCall("stop") \/ IsCall("set_t0"))
                    /\ lastCall'.log = l
              \/ IsCall("set_amplitude") /\ lastCall'.target \in Objects(l)) =>
                LogValue(logs'[3 - l], lists', chans')
                   = LogValue(logs[3 - l], lists, chans)]_vars

\* the snapshot's only channel got another amplitude than the original's
C11_Witness ==
    /\ user = 2
    /\ lastCall.op = "set_amplitude"
    /\ lastCall.target \in Objects(2)
    /\ Len(Data(1)) = 1
    /\ Len(Data(2)) = 1
    /\ chans[Data(1)[1].channels[1]].amplitude # chans[Data(2)[1].channels[1]].amplitude

\* C20 (as claimed): once deserialize(log.serialized) has built the second
\* log, add() and stop_undefined_stimulation_duration() on one of the two
\* logs leave the event sequence of the other as it was.
C20_DeserializedIndependent ==
    [][(logs[2].alive /\ (IsCall("add") \/ IsCall("stop"))) =>
          LogValue(logs'[3 - lastCall'.log], lists', chans').events
             = LogValue(logs[3 - lastCall'.log], lists, chans).events]_vars

\* C18: a snapshot taken by copy() while another thread writes the log is
\* the complete value the log held at one instant between the start and the
\* end of the copy call: never an origin time from one instant together with
\* events from another.
C18_SnapshotAtomic ==
    reader.pc = "done" => LogValue(logs[2], lists, chans) \in seen

\* C16: when initialize_stimulation was never called, only the very first
\* start_stimulation call runs the device-level initialisation; every later
\* start_stimulation call starts the device without initialising it again.
C16_InitialisedOnce ==
    devCall.op = "start" /\ ~devCall.explicit
        => (devCall.initialised <=> devCall.starts = 1)

\* C17: while a start_stimulation(None) is waiting for the program's
\* stop_stimulation, the device is never paused: no Timer left over from an
\* earlier timed start stops it.
C17_IndefiniteUntilStop ==
    devCall.hold /\ hw.open => hw.stimulating

\* C19: once dispose has closed the port, no command is sent to the device
\* any more, whatever Timers were pending.
C19_SilentAfterDispose ==
    ~hw.open => ~devCall.late

====
